---- MODULE Spec2Model ----
(***************************************************************************)
(* stdem: a worksheet whose header region declares a typed, nested schema  *)
(* (cells "name:type", nesting through merged cells) is compiled into a    *)
(* tree of Head* nodes (excel_parser.Head), and the rows from "#data" on   *)
(* are extracted through that tree (head_type.*.parse_data).               *)
(*                                                                         *)
(* Python values are modelled as tagged records.  A Python str is a        *)
(* sequence of tokens: ":" is a token of its own and every other token is  *)
(* a run of characters without a colon, so that "in" and split(":", 1) are *)
(* computed on the text.  Python lists and dicts live in a heap and are    *)
(* referred to by reference, so that aliasing of an accumulator is kept.   *)
(* Python indices are 0-based: At(s, i) is s[i].                           *)
(***************************************************************************)
EXTENDS Integers, Sequences, FiniteSets, TLC

\* ------------------------------------------------------------------ bounds
MaxHeadRows == 2    \* rows read before the first "#data" row, after row 0
MaxDataRows == 3    \* rows read from the first "#data" row on
MaxMarks == 2       \* rows marked "#data"
MaxInt == 3         \* integers the conversions know how to print and parse
MaxFiles == 4       \* the .xlsx files of the input directory

\* ------------------------------------------------------------------ values
NoneV == [t |-> "none"]
IntV(n) == [t |-> "int", v |-> n]
FloatV(tenths) == [t |-> "float", v |-> tenths]
StrV(s) == [t |-> "str", v |-> s]
RefV(id) == [t |-> "ref", v |-> id]
Raised == [t |-> "raise"]

At(s, i) == s[i + 1]

Min(a, b) == IF a < b THEN a ELSE b

\* ------------------------------------------------------------- conversions
Digits == <<"0", "1", "2", "3", "4", "5", "6", "7", "8", "9">>

\* str(n) for an int n: its decimal digits
RECURSIVE IntText(_)
IntText(n) == IF n < 10 THEN Digits[n + 1] ELSE IntText(n \div 10) \o Digits[(n % 10) + 1]

\* repr of a float given in tenths: "1.5"
FloatText(tenths) == IntText(tenths \div 10) \o "." \o Digits[(tenths % 10) + 1]

\* str(value)
PyStr(val) ==
    CASE val.t = "str" -> val.v
      [] val.t = "int" -> <<IntText(val.v)>>
      [] val.t = "float" -> <<FloatText(val.v)>>
      [] OTHER -> <<"None">>

\* bool(value): None, 0, 0.0 and "" are false
Truthy(val) ==
    CASE val.t = "none" -> FALSE
      [] val.t = "int" -> val.v # 0
      [] val.t = "float" -> val.v # 0
      [] val.t = "str" -> val.v # <<>>
      [] OTHER -> TRUE

\* int(value): [ok, v]; a str must be the decimal digits of an integer
PyInt(val) ==
    CASE val.t = "int" -> [ok |-> TRUE, v |-> val.v]
      [] val.t = "float" -> [ok |-> TRUE, v |-> val.v \div 10]
      [] val.t = "str" ->
            IF \E n \in 0..MaxInt : val.v = <<IntText(n)>>
            THEN [ok |-> TRUE, v |-> CHOOSE n \in 0..MaxInt : val.v = <<IntText(n)>>]
            ELSE [ok |-> FALSE, v |-> 0]
      [] OTHER -> [ok |-> FALSE, v |-> 0]

\* float(value): [ok, v] with v in tenths
PyFloat(val) ==
    CASE val.t = "int" -> [ok |-> TRUE, v |-> 10 * val.v]
      [] val.t = "float" -> [ok |-> TRUE, v |-> val.v]
      [] val.t = "str" ->
            IF \E n \in 0..MaxInt : val.v = <<IntText(n)>>
            THEN [ok |-> TRUE, v |-> 10 * (CHOOSE n \in 0..MaxInt : val.v = <<IntText(n)>>)]
            ELSE IF \E f \in 0..(10 * MaxInt + 9) : val.v = <<FloatText(f)>>
            THEN [ok |-> TRUE, v |-> CHOOSE f \in 0..(10 * MaxInt + 9) : val.v = <<FloatText(f)>>]
            ELSE [ok |-> FALSE, v |-> 0]
      [] OTHER -> [ok |-> FALSE, v |-> 0]

\* ------------------------------------------------------------------ errors
NoErr == [kind |-> "none", col |-> -1, expected |-> -1, got |-> -1]
Err(kind, col) == [kind |-> kind, col |-> col, expected |-> -1, got |-> -1]

\* -------------------------------------------------------------- type nodes
\* HeadType.__init__ and the subclasses' __init__: key / value are 0 for None,
\* data is 0 while the attribute does not exist, else a heap reference
HeadType(kind, name, cell) ==
    [kind |-> kind, name |-> name, column |-> cell.column - 2,
     key |-> 0, value |-> 0, children |-> <<>>, data |-> 0]

\* the variant of TYPE_DICT with the classes of "list" and "dict" exchanged
TYPE_DICT_swapped ==
    (<<"int">> :> "HeadInt") @@ (<<"string">> :> "HeadString") @@
    (<<"float">> :> "HeadFloat") @@ (<<"list">> :> "HeadDict") @@
    (<<"dict">> :> "HeadList") @@ (<<"class">> :> "HeadClass")

TYPE_DICT ==
    (<<"int">> :> "HeadInt") @@ (<<"string">> :> "HeadString") @@
    (<<"float">> :> "HeadFloat") @@ (<<"list">> :> "HeadList") @@
    (<<"dict">> :> "HeadDict") @@ (<<"class">> :> "HeadClass")

HasColon(s) == \E p \in 1..Len(s) : s[p] = ":"
FirstColon(s) == CHOOSE p \in 1..Len(s) : s[p] = ":" /\ \A q \in 1..(p - 1) : s[q] # ":"

\* head_creator(cell): [err, node]
head_creator(cell) ==
    LET cell_value == IF Truthy(cell.value) THEN PyStr(cell.value) ELSE <<>>
    IN  IF ~HasColon(cell_value)
        THEN [err |-> Err("InvalidHeaderFormatError", cell.column - 2), node |-> NoneV]
        ELSE LET p == FirstColon(cell_value)
                 name == SubSeq(cell_value, 1, p - 1)
                 type_name == SubSeq(cell_value, p + 1, Len(cell_value))
             IN  IF type_name \notin DOMAIN TYPE_DICT
                 THEN [err |-> Err("InvalidTypeNameError", cell.column - 2), node |-> NoneV]
                 ELSE [err |-> NoErr, node |-> HeadType(TYPE_DICT[type_name], name, cell)]

\* the variant of add_child whose List and Dict take any node as first child
add_child_any_key(nodes, parent, child) ==
    LET self == nodes[parent]
        reject == [err |-> Err("ChildAdditionError", self.column), nodes |-> nodes]
    IN  CASE self.kind = "HeadClass" ->
                [err |-> NoErr,
                 nodes |-> [nodes EXCEPT ![parent].children = Append(@, child)]]
          [] self.kind \in {"HeadList", "HeadDict"} ->
                IF self.key = 0
                THEN [err |-> NoErr, nodes |-> [nodes EXCEPT ![parent].key = child]]
                ELSE IF self.value = 0
                THEN [err |-> NoErr, nodes |-> [nodes EXCEPT ![parent].value = child]]
                ELSE reject
          [] OTHER -> reject

\* add_child of the node `parent` with the node `child`: [err, nodes]
add_child(nodes, parent, child) ==
    LET self == nodes[parent]
        reject == [err |-> Err("ChildAdditionError", self.column), nodes |-> nodes]
    IN  CASE self.kind = "HeadClass" ->
                [err |-> NoErr,
                 nodes |-> [nodes EXCEPT ![parent].children = Append(@, child)]]
          [] self.kind \in {"HeadList", "HeadDict"} ->
                IF self.key = 0
                THEN IF nodes[child].kind # (IF self.kind = "HeadList" THEN "HeadInt" ELSE "HeadString")
                     THEN reject
                     ELSE [err |-> NoErr, nodes |-> [nodes EXCEPT ![parent].key = child]]
                ELSE IF self.value = 0
                THEN [err |-> NoErr, nodes |-> [nodes EXCEPT ![parent].value = child]]
                ELSE reject
          [] OTHER -> reject

\* the variant of get_cell_max_col that forgets the marker column
get_cell_max_col_sheet(cell) == IF cell.merged # 0 THEN cell.merged ELSE cell.column - 1

\* the variant of get_cell_max_col that takes every cell for unmerged
get_cell_max_col_own(cell) == cell.column - 1

\* Head.get_cell_max_col: cell.merged is the max_col of the merged range that
\* holds the cell's coordinate, 0 when no range does
get_cell_max_col(cell) == IF cell.merged # 0 THEN cell.merged - 1 ELSE cell.column - 1

\* headList[i:j] = [h] * (j - i)
SliceAssign(list, i, j, h) ==
    SubSeq(list, 1, i) \o [k \in 1..(j - i) |-> h] \o SubSeq(list, Min(j, Len(list)) + 1, Len(list))

\* an entry of the history field `made`: the cell head_creator was called on
\* with its outcome [err, node], and the add_child call that followed, if one
\* did: the node called (parent, 0 if none), that node before and after the
\* call, the number given to the child and the call's outcome (added)
Made(cell, c, parent, before, after, child, added) ==
    [cell |-> cell, err |-> c.err, node |-> c.node, parent |-> parent,
     before |-> before, after |-> after, child |-> child, added |-> added]

\* Head.row_parser, from column index i on; hd = [column, nodes, headList, err,
\* made, visited] (made and visited are history fields: the cells head_creator
\* was called on in this sweep, each with its outcome, and the values of i the
\* body of the loop ran with).  When a call raises, hd is the state the
\* exception leaves behind.
RECURSIVE row_parser(_, _, _)
row_parser(i, row, hd0) ==
    IF hd0.err.kind # "none" \/ ~(i < hd0.column) THEN hd0
    ELSE LET hd == [hd0 EXCEPT !.visited = Append(@, i)]
         IN
         IF ~Truthy(At(row, i).value) THEN row_parser(i + 1, row, hd)
         ELSE LET c == head_creator(At(row, i))
              IN  IF c.err.kind # "none"
                  THEN [hd EXCEPT !.err = c.err,
                                  !.made = Append(@, Made(At(row, i), c, 0, NoneV, NoneV, 0, NoErr))]
                  ELSE LET j == get_cell_max_col(At(row, i))
                           h == Len(hd.nodes) + 1
                           parent == At(hd.headList, i)
                           a == add_child(Append(hd.nodes, c.node), parent, h)
                           made1 == Append(hd.made, Made(At(row, i), c, parent, hd.nodes[parent],
                                                         a.nodes[parent], h, a.err))
                       IN  IF a.err.kind # "none" THEN [hd EXCEPT !.err = a.err, !.made = made1]
                           ELSE row_parser(j, row,
                                    [column |-> hd.column, nodes |-> a.nodes,
                                     headList |-> SliceAssign(hd.headList, i, j, h),
                                     err |-> NoErr, made |-> made1, visited |-> hd.visited])


\* ------------------------------------------------------------------- heap
\* A Python list or dict object.  items: the elements of a list, or the
\* (k, v) entries of a dict in insertion order.  keys is a history field:
\* the keys whose rows were stored into this object, in row order.
NewObj(t) == [t |-> t, items |-> <<>>, keys |-> <<>>]

\* the variant of DictSet that keeps the value a key already has
DictSet_first(items, k, v) ==
    IF \E p \in 1..Len(items) : items[p].k = k THEN items
    ELSE Append(items, [k |-> k, v |-> v])

\* d[k] = v on the entries of a dict: overwrite in place, or insert last
DictSet(items, k, v) ==
    IF \E p \in 1..Len(items) : items[p].k = k
    THEN [p \in 1..Len(items) |-> IF items[p].k = k THEN [k |-> k, v |-> v] ELSE items[p]]
    ELSE Append(items, [k |-> k, v |-> v])

\* --------------------------------------------------------------- parse_data
\* The extraction state st = [nodes, heap, err, log]; a call returns
\* [st, val].  log is a history field: one entry per finished call, in order
\* of completion, [node, enable, ret] with ret = Raised when it raised.
Return(st, n, enable, val) ==
    [st |-> [st EXCEPT !.log = Append(@, [node |-> n, enable |-> enable, ret |-> val])],
     val |-> val]

Raise(st, n, enable, err) ==
    [st |-> [st EXCEPT !.err = err,
                       !.log = Append(@, [node |-> n, enable |-> enable, ret |-> Raised])],
     val |-> NoneV]

\* the variant of validate_and_convert that lets unexpected data pass
validate_and_convert_silent(cell, enable) ==
    IF enable /\ cell.value # NoneV
    THEN [err |-> NoErr, should_process |-> TRUE, value |-> cell.value]
    ELSE [err |-> NoErr, should_process |-> FALSE, value |-> NoneV]

\* HeadType._validate_and_convert: [err, should_process, value]
validate_and_convert(cell, enable) ==
    IF enable
    THEN IF cell.value # NoneV
         THEN [err |-> NoErr, should_process |-> TRUE, value |-> cell.value]
         ELSE [err |-> NoErr, should_process |-> FALSE, value |-> NoneV]
    ELSE IF cell.value # NoneV
         THEN [err |-> Err("UnexpectedDataError", cell.column - 2),
               should_process |-> FALSE, value |-> NoneV]
         ELSE [err |-> NoErr, should_process |-> FALSE, value |-> NoneV]

\* HeadInt / HeadString / HeadFloat .parse_data
scalar_parse_data(n, data, enable, st) ==
    LET self == st.nodes[n]
        cell == At(data, self.column)
        vc == validate_and_convert(cell, enable)
        conv == CASE self.kind = "HeadInt" ->
                        LET r == PyInt(vc.value) IN [ok |-> r.ok, val |-> IntV(r.v)]
                  [] self.kind = "HeadFloat" ->
                        LET r == PyFloat(vc.value) IN [ok |-> r.ok, val |-> FloatV(r.v)]
                  [] OTHER -> [ok |-> TRUE, val |-> StrV(PyStr(vc.value))]
    IN  IF vc.err.kind # "none" THEN Raise(st, n, enable, vc.err)
        ELSE IF vc.should_process
        THEN IF conv.ok THEN Return(st, n, enable, conv.val)
             ELSE Raise(st, n, enable, Err("TypeConversionError", cell.column - 2))
        ELSE Return(st, n, enable, NoneV)

\* the variant of Reset that empties the object the attribute is bound to
Reset_clear(st, n, t) ==
    IF st.nodes[n].data = 0
    THEN [st EXCEPT !.heap = Append(@, NewObj(t)), !.nodes[n].data = Len(st.heap) + 1]
    ELSE [st EXCEPT !.heap[st.nodes[n].data] = NewObj(t)]

\* self.data = [] / self.data = {}: a new object, bound to the attribute
Reset(st, n, t) ==
    [st EXCEPT !.heap = Append(@, NewObj(t)), !.nodes[n].data = Len(st.heap) + 1]

RECURSIVE parse_data(_, _, _, _)
RECURSIVE class_children(_, _, _, _, _, _)

\* the variant of index_mismatch that lets a repeated index through
index_mismatch_repeat(key, items) == key > Len(items)

\* HeadList.parse_data, line 145: key != len(self.data)
index_mismatch(key, items) == key # Len(items)

\* the variant of begin_instance that starts an instance only once
begin_instance_once(st, n, t, enable) ==
    IF enable /\ st.nodes[n].data = 0 THEN Reset(st, n, t) ELSE st

\* the variant of begin_instance that starts a new instance on every call
begin_instance_always(st, n, t, enable) == Reset(st, n, t)

\* HeadList.parse_data lines 141-142, HeadDict.parse_data lines 179-180
begin_instance(st, n, t, enable) == IF enable THEN Reset(st, n, t) ELSE st

\* the variant of key_enable that hands the caller's flag to the key child
key_enable_passed(enable) == enable

\* HeadList.parse_data line 143, HeadDict.parse_data line 181: the flag the
\* key child is called with
key_enable(enable) == TRUE

\* HeadList.parse_data
list_parse_data(n, data, enable, st0) ==
    LET st1 == begin_instance(st0, n, "list", enable)
        self == st1.nodes[n]
    IN  IF self.key = 0 THEN Raise(st1, n, enable, Err("AttributeError", self.column))
        ELSE
        LET k == parse_data(self.key, data, key_enable(enable), st1)
        IN  IF k.st.err.kind # "none" THEN Raise(k.st, n, enable, k.st.err)
            ELSE IF k.val # NoneV
            THEN IF self.data = 0
                 THEN Raise(k.st, n, enable, Err("AttributeError", self.column))
                 ELSE IF index_mismatch(k.val.v, k.st.heap[self.data].items)
                 THEN Raise(k.st, n, enable,
                            [kind |-> "InvalidIndexError", col |-> self.column,
                             expected |-> Len(k.st.heap[self.data].items), got |-> k.val.v])
                 ELSE IF self.value = 0
                 THEN Raise(k.st, n, enable, Err("AttributeError", self.column))
                 ELSE LET v == parse_data(self.value, data, TRUE, k.st)
                      IN  IF v.st.err.kind # "none" THEN Raise(v.st, n, enable, v.st.err)
                          ELSE Return([v.st EXCEPT !.heap[self.data].items = Append(@, v.val),
                                                   !.heap[self.data].keys = Append(@, k.val.v)],
                                      n, enable, IF enable THEN RefV(self.data) ELSE NoneV)
            ELSE IF self.value = 0
            THEN Raise(k.st, n, enable, Err("AttributeError", self.column))
            ELSE LET v == parse_data(self.value, data, FALSE, k.st)
                 IN  IF v.st.err.kind # "none" THEN Raise(v.st, n, enable, v.st.err)
                     ELSE Return(v.st, n, enable, IF enable THEN RefV(self.data) ELSE NoneV)

\* HeadDict.parse_data
dict_parse_data(n, data, enable, st0) ==
    LET st1 == begin_instance(st0, n, "dict", enable)
        self == st1.nodes[n]
    IN  IF self.key = 0 THEN Raise(st1, n, enable, Err("AttributeError", self.column))
        ELSE
        LET k == parse_data(self.key, data, key_enable(enable), st1)
        IN  IF k.st.err.kind # "none" THEN Raise(k.st, n, enable, k.st.err)
            ELSE IF self.value = 0
            THEN Raise(k.st, n, enable, Err("AttributeError", self.column))
            ELSE IF k.val # NoneV
            THEN LET v == parse_data(self.value, data, TRUE, k.st)
                 IN  IF v.st.err.kind # "none" THEN Raise(v.st, n, enable, v.st.err)
                     ELSE IF self.data = 0
                     THEN Raise(v.st, n, enable, Err("AttributeError", self.column))
                     ELSE Return([v.st EXCEPT !.heap[self.data].items = DictSet(@, k.val.v, v.val),
                                              !.heap[self.data].keys = Append(@, k.val.v)],
                                 n, enable, IF enable THEN RefV(self.data) ELSE NoneV)
            ELSE LET v == parse_data(self.value, data, FALSE, k.st)
                 IN  IF v.st.err.kind # "none" THEN Raise(v.st, n, enable, v.st.err)
                     ELSE Return(v.st, n, enable, IF enable THEN RefV(self.data) ELSE NoneV)

\* the two loops of HeadClass.parse_data, from child number p on; ret is the
\* heap id of the mapping being built (enable only)
class_children(n, p, data, enable, ret, st) ==
    LET self == st.nodes[n]
    IN  IF p > Len(self.children)
        THEN Return(st, n, enable, IF enable THEN RefV(ret) ELSE NoneV)
        ELSE LET i == self.children[p]
                 c == parse_data(i, data, enable, st)
             IN  IF c.st.err.kind # "none" THEN Raise(c.st, n, enable, c.st.err)
                 ELSE class_children(n, p + 1, data, enable, ret,
                        IF enable
                        THEN [c.st EXCEPT !.heap[ret].items = DictSet(@, c.st.nodes[i].name, c.val)]
                        ELSE c.st)

\* HeadClass.parse_data
class_parse_data(n, data, enable, st) ==
    IF enable
    THEN class_children(n, 1, data, TRUE, Len(st.heap) + 1,
                        [st EXCEPT !.heap = Append(@, NewObj("dict"))])
    ELSE class_children(n, 1, data, FALSE, 0, st)

\* node.parse_data(data, enable): dispatch on the node's class
parse_data(n, data, enable, st) ==
    CASE st.nodes[n].kind = "HeadList" -> list_parse_data(n, data, enable, st)
      [] st.nodes[n].kind = "HeadDict" -> dict_parse_data(n, data, enable, st)
      [] st.nodes[n].kind = "HeadClass" -> class_parse_data(n, data, enable, st)
      [] OTHER -> scalar_parse_data(n, data, enable, st)

\* the value a reference stands for, as json.dumps would walk it
RECURSIVE Deref(_, _)
Deref(heap, val) ==
    IF val.t # "ref" THEN val
    ELSE LET o == heap[val.v]
         IN  IF o.t = "list"
             THEN [t |-> "list", items |-> [p \in 1..Len(o.items) |-> Deref(heap, o.items[p])]]
             ELSE [t |-> "dict",
                   items |-> [p \in 1..Len(o.items) |->
                                 [k |-> o.items[p].k, v |-> Deref(heap, o.items[p].v)]]]


\* ------------------------------------------------------------- worksheets
\* A cell: its value, its 1-based worksheet column, and merged.  A row: the
\* marker cell's value and the cells of row[1:].
Cell(value, column, merged) == [value |-> value, column |-> column, merged |-> merged]

HEAD == StrV(<<"#head">>)
DATA == StrV(<<"#data">>)
COMMENT == StrV(<<"#">>)

\* Only the top-left cell of a merged range keeps a value: the cells a range
\* covers to the right of it are empty.
WellMerged(cells) ==
    \A p \in 1..Len(cells) :
        /\ cells[p].merged # 0 => cells[p].merged > cells[p].column
        /\ \A q \in (p + 1)..Len(cells) :
              (cells[p].merged # 0 /\ cells[q].column <= cells[p].merged)
                  => (cells[q].value = NoneV /\ cells[q].merged = 0)

\* rows of n cells, the cell of column index p - 1 drawn from vals[p]; merges:
\* may a cell be the top-left cell of a merged range
Cells(n, vals, merges) ==
    LET opts == IF merges THEN {0} \cup (3..(n + 1)) ELSE {0}
        pick == (UNION {vals[p] : p \in 1..n}) \X opts
        all == {[p \in 1..n |-> Cell(f[p][1], p + 1, f[p][2])] :
                   f \in {g \in [1..n -> pick] : \A p \in 1..n : g[p][1] \in vals[p]}}
    IN  {c \in all : WellMerged(c)}

\* row 0 with one cell merged over the whole width (a range of one column is
\* no range)
Whole(n, vals) ==
    {[p \in 1..n |-> IF p = 1 THEN Cell(v, 2, IF n > 1 THEN n + 1 ELSE 0) ELSE Cell(NoneV, p + 1, 0)] :
        v \in vals[1]}

T(name, type) == StrV(<<name, ":", type>>)
S(text) == StrV(<<text>>)

\* The worksheets explored, by family: the width (data columns besides the
\* marker column), what the cells of each column are drawn from in the header
\* region (texts) and in the data region (vals), what the marker cells are
\* drawn from, and whether row 0 holds one cell merged over the whole width.
Lists ==
    [width |-> 2,
     texts |-> <<{NoneV, T("r", "class"), T("tags", "list"), T("i", "int")},
                 {NoneV, T("v", "string")}>>,
     vals |-> <<{NoneV, IntV(0), IntV(1), IntV(2)}, {NoneV, S("a"), S("b"), S("c")}>>,
     markers |-> {NoneV, COMMENT, DATA},
     whole |-> TRUE]

Dicts ==
    [width |-> 2,
     texts |-> <<{NoneV, T("d", "dict"), T("s", "string"), T("i", "int")},
                 {NoneV, T("d", "dict"), T("s", "string"), T("i", "int")}>>,
     vals |-> <<{NoneV, S("a"), S("b")}, {NoneV, IntV(1), S("x")}>>,
     markers |-> {NoneV, COMMENT, DATA},
     whole |-> TRUE]

Records ==
    [width |-> 2,
     texts |-> <<{NoneV, T("c", "class"), T("id", "int")},
                 {NoneV, T("name", "string"), T("id", "string"), IntV(0)}>>,
     vals |-> <<{NoneV, IntV(1), S("x")}, {NoneV, S("Alice")}>>,
     markers |-> {NoneV, COMMENT, DATA, S("x")},
     whole |-> FALSE]

Types ==
    [width |-> 1,
     texts |-> <<{NoneV, T("id", "int"), T("name", "string"), T("f", "float"), T("l", "list"),
                  T("d", "dict"), T("c", "class"),
                  S("score"), StrV(<<"a", ":", "b", ":", "c">>), T("x", "bool")}>>,
     vals |-> <<{NoneV, IntV(1), S("1"), FloatV(15), S("1.5"), S("Alice")}>>,
     markers |-> {NoneV, COMMENT, DATA, S("x")},
     whole |-> TRUE]

\* a list whose elements are lists
Nested ==
    [width |-> 3,
     texts |-> <<{NoneV, T("l", "list"), T("i", "int")},
                 {NoneV, T("m", "list"), T("j", "int")},
                 {NoneV, T("w", "string")}>>,
     vals |-> <<{NoneV, IntV(0), IntV(1)}, {NoneV, IntV(0), IntV(1)}, {NoneV, S("a")}>>,
     markers |-> {NoneV, DATA},
     whole |-> TRUE]

Families == {Lists, Dicts, Records, Types, Nested}

\* ------------------------------------------------------------------ state
VARIABLES
    fam,        \* the family the worksheet is drawn from
    pc,         \* "open": before row 0; "rows": in the loop over the rows; "done"
    column,     \* Head.column
    nodes,      \* the Head* objects, in creation order; head.head is nodes[1]
    headList,   \* Head.headList
    heap,       \* the list and dict objects
    is_data,    \* get_data's is_data
    data_root,  \* get_data's data_root
    first_row,  \* get_data's first_row
    rows,       \* history: the rows passed to head.head.parse_data, in order
    raised,     \* the exception get_data raised, NoErr if none
    returned,   \* has get_data returned data_root
    log,        \* history: the parse_data calls made for the row read last
    made,       \* history: the head_creator calls made for the row read last
    first_ret,  \* history: what head.head.parse_data returned on the first "#data" row
    nhead,      \* history: rows read by the loop before the first "#data" row
    ndata,      \* history: rows read by the loop from the first "#data" row on
    nmark,      \* history: rows marked "#data" read by the loop
    row_marker, \* history: row[0].value of the row read last
    swept,      \* history: the cells row_parser was called on for the row read last
    visited,    \* history: the values of i row_parser's loop ran its body with, for that row
    excel_files,    \* parse_dir: what get_json does on each file glob found, in order
    json_dir,       \* parse_dir: the .json files of the output directory
    dpc,            \* parse_dir: "idle", "start", "loop", "done"
    file,           \* parse_dir: the position of the loop in excel_files
    success_count,  \* parse_dir's success_count
    failure_count,  \* parse_dir's failure_count
    stats,          \* what parse_dir returned or raised, NoneV before
    parsed          \* history: the files parse_file was called on, in order

dvars == <<excel_files, json_dir, dpc, file, success_count, failure_count, stats, parsed>>

vars == <<fam, pc, column, nodes, headList, heap, is_data, data_root, first_row, rows, raised, returned,
          log, made, first_ret, nhead, ndata, nmark, row_marker, swept, visited, dvars>>

NoRow == [marker |-> NoneV, cells |-> <<>>]

\* no parse_dir call is under way
NoDir ==
    /\ excel_files = <<>>
    /\ json_dir = {}
    /\ dpc = "idle"
    /\ file = 0
    /\ success_count = 0
    /\ failure_count = 0
    /\ stats = NoneV
    /\ parsed = <<>>

\* get_data before the first row is read
Start ==
    /\ pc = "open"
    /\ column = 0
    /\ nodes = <<>>
    /\ headList = <<>>
    /\ heap = <<>>
    /\ is_data = FALSE
    /\ data_root = NoneV
    /\ first_row = NoRow
    /\ rows = <<>>
    /\ raised = NoErr
    /\ returned = FALSE
    /\ log = <<>>
    /\ made = <<>>
    /\ first_ret = Raised
    /\ nhead = 0
    /\ ndata = 0
    /\ nmark = 0
    /\ row_marker = NoneV
    /\ swept = <<>>
    /\ visited = <<>>

Init == fam \in Families /\ Start /\ NoDir

\* the variant of root_cell that takes the last cell of row 0
root_cell_last(row) == row[Len(row)]

\* Head.__init__: row[0], the cell the root node is made from
root_cell(row) == At(row, 0)

\* the variant of head_marker_missing that only misses an empty marker cell
head_marker_missing_empty(value) == value = NoneV

\* get_data line 77: first_cell.value != "#head"
head_marker_missing(value) == value # HEAD

\* get_data, lines 69-83: the first row, the "#head" check and Head.__init__
Open ==
    /\ pc = "open"
    /\ \E m \in {HEAD, NoneV, S("x")} :
       \E cells \in (IF fam.whole THEN Whole(fam.width, fam.texts)
                                    ELSE Cells(fam.width, fam.texts, FALSE)) :
          LET c == head_creator(root_cell(cells))
          IN  /\ first_row' = [marker |-> m, cells |-> cells]
              /\ row_marker' = m
              /\ IF head_marker_missing(m)
                 THEN /\ raised' = Err("MissingHeaderMarkerError", -1)
                      /\ pc' = "done"
                      /\ UNCHANGED <<column, nodes, headList, made>>
                 ELSE /\ made' = <<Made(root_cell(cells), c, 0, NoneV, NoneV, 0, NoErr)>>
                      /\ column' = Len(cells)
                      /\ IF c.err.kind # "none"
                         THEN /\ raised' = c.err
                              /\ pc' = "done"
                              /\ UNCHANGED <<nodes, headList>>
                         ELSE /\ nodes' = <<c.node>>
                              /\ headList' = [p \in 1..Len(cells) |-> 1]
                              /\ pc' = "rows"
                              /\ UNCHANGED raised
    /\ UNCHANGED <<fam, heap, is_data, data_root, rows, returned, log, first_ret, nhead, ndata, nmark,
                   swept, visited, dvars>>

\* the variant of is_comment that takes no row for a comment
is_comment_never(value) == FALSE

\* get_data line 90: row[0].value == "#"
is_comment(value) == value = COMMENT

\* the variant of extracts that only extracts the rows marked "#data"
extracts_marked(value, data) == value = DATA

\* get_data lines 92 and 97: the row goes to parse_data, not to row_parser
extracts(value, data) == value = DATA \/ data

\* one iteration of the loop over the rows, get_data lines 89-100
ReadRow(r) ==
    LET st0 == [nodes |-> nodes, heap |-> heap, err |-> NoErr, log |-> <<>>]
    IN
    /\ IF is_comment(r.marker)
       THEN UNCHANGED <<pc, nodes, headList, heap, is_data, data_root, rows, raised,
                        first_ret, log, made, swept, visited>>
       ELSE IF extracts(r.marker, is_data)
       THEN LET x == parse_data(1, r.cells, r.marker = DATA, st0)
            IN  /\ rows' = Append(rows, r)
                /\ log' = x.st.log
                /\ made' = <<>>
                /\ nodes' = x.st.nodes
                /\ heap' = x.st.heap
                /\ raised' = x.st.err
                /\ pc' = IF x.st.err.kind # "none" THEN "done" ELSE pc
                /\ is_data' = TRUE
                /\ data_root' = IF r.marker = DATA /\ x.st.err.kind = "none" THEN x.val ELSE data_root
                /\ first_ret' = IF r.marker = DATA /\ ~is_data /\ x.st.err.kind = "none"
                                THEN x.val ELSE first_ret
                /\ swept' = <<>>
                /\ visited' = <<>>
                /\ UNCHANGED headList
       ELSE LET h == row_parser(0, r.cells,
                        [column |-> column, nodes |-> nodes, headList |-> headList,
                         err |-> NoErr, made |-> <<>>, visited |-> <<>>])
            IN  /\ made' = h.made
                /\ swept' = r.cells
                /\ visited' = h.visited
                /\ UNCHANGED <<rows, log>>
                /\ raised' = h.err
                /\ pc' = IF h.err.kind # "none" THEN "done" ELSE pc
                /\ nodes' = h.nodes
                /\ headList' = h.headList
                /\ UNCHANGED <<heap, is_data, data_root, first_ret>>
    /\ IF is_data \/ r.marker = DATA
       THEN /\ ndata' = ndata + 1
            /\ UNCHANGED nhead
       ELSE /\ nhead' = nhead + 1
            /\ UNCHANGED ndata
    /\ nmark' = IF r.marker = DATA THEN nmark + 1 ELSE nmark
    /\ row_marker' = r.marker
    /\ UNCHANGED <<fam, column, first_row, returned, dvars>>

\* a row of the header region: any marker but "#data"
HeadRow ==
    /\ pc = "rows" /\ ~is_data /\ nhead < MaxHeadRows
    /\ \E m \in fam.markers \ {DATA} :
       \E cells \in Cells(column, fam.texts, TRUE) :
          ReadRow([marker |-> m, cells |-> cells])

\* the first "#data" row, or a row after it
DataRow ==
    /\ pc = "rows" /\ ndata < MaxDataRows
    /\ \E m \in (IF is_data THEN fam.markers ELSE {DATA}) \ (IF nmark < MaxMarks THEN {} ELSE {DATA}) :
       \E cells \in Cells(column, fam.vals, FALSE) :
          ReadRow([marker |-> m, cells |-> cells])

\* the variant of no_data that never misses the data
no_data_never(root) == FALSE

\* get_data line 103: data_root is None
no_data(root) == root = NoneV

\* the rows are exhausted: get_data lines 102-106
Finish ==
    /\ pc = "rows"
    /\ pc' = "done"
    /\ IF no_data(data_root)
       THEN /\ raised' = Err("MissingDataMarkerError", -1)
            /\ UNCHANGED returned
       ELSE /\ returned' = TRUE
            /\ UNCHANGED raised
    /\ UNCHANGED <<fam, column, nodes, headList, heap, is_data, data_root, first_row, rows,
                   log, made,
                   first_ret, nhead, ndata, nmark, row_marker, swept, visited, dvars>>

Next == Open \/ HeadRow \/ DataRow \/ Finish

Spec == Init /\ [][Next]_vars

\* ---------------------------------------------------------------- parse_dir
\* What get_json does on a file: it returns the JSON text, or get_data raises
\* one of the diagnostics of the package, or another exception (such as the
\* AttributeError of a node without its attribute).
Outcomes == {"json", "TableException", "Exception"}

\* the variant of parse_file that only catches TableException
parse_file_uncaught(outcome) ==
    CASE outcome = "json" -> [ret |-> "True", write |-> TRUE]
      [] outcome = "TableException" -> [ret |-> "False", write |-> FALSE]
      [] OTHER -> [ret |-> "raise", write |-> FALSE]

\* parse_file: [ret, write]; ret is "True", "False" or "raise" when an
\* exception leaves the function, write tells whether json_file was written
parse_file(outcome) ==
    IF outcome = "json" THEN [ret |-> "True", write |-> TRUE]
    ELSE [ret |-> "False", write |-> FALSE]

\* a call parse_dir(excel_dir, json_dir) on an existing directory: the files
\* glob finds, and the .json files the output directory holds (0: one that
\* belongs to no .xlsx file, i: the one of the file at position i)
DirInit ==
    /\ fam = Types /\ Start
    /\ excel_files \in UNION {[1..n -> Outcomes] : n \in 0..MaxFiles}
    /\ json_dir \in {{}, {0, 1}}
    /\ dpc = "start"
    /\ file = 0
    /\ success_count = 0
    /\ failure_count = 0
    /\ stats = NoneV
    /\ parsed = <<>>

svars == <<fam, pc, column, nodes, headList, heap, is_data, data_root, first_row, rows, raised,
           returned, log, made, first_ret, nhead, ndata, nmark, row_marker, swept, visited>>

\* parse_dir lines 72-88: the .json files are removed, the counters set, and
\* (0, 0) returned when glob found no file
Clear ==
    /\ dpc = "start"
    /\ json_dir' = {}
    /\ success_count' = 0
    /\ failure_count' = 0
    /\ IF excel_files = <<>>
       THEN dpc' = "done" /\ stats' = <<0, 0>> /\ UNCHANGED file
       ELSE dpc' = "loop" /\ file' = 1 /\ UNCHANGED stats
    /\ UNCHANGED <<excel_files, parsed, svars>>

\* parse_dir lines 90-98: one iteration of the loop over excel_files
ParseFile ==
    /\ dpc = "loop" /\ file <= Len(excel_files)
    /\ LET r == parse_file(excel_files[file])
       IN  /\ parsed' = Append(parsed, file)
           /\ json_dir' = IF r.write THEN json_dir \cup {file} ELSE json_dir
           /\ success_count' = IF r.ret = "True" THEN success_count + 1 ELSE success_count
           /\ failure_count' = IF r.ret = "False" THEN failure_count + 1 ELSE failure_count
           /\ IF r.ret = "raise"
              THEN dpc' = "done" /\ stats' = Raised /\ UNCHANGED file
              ELSE file' = file + 1 /\ UNCHANGED <<dpc, stats>>
    /\ UNCHANGED <<excel_files, svars>>

\* parse_dir line 100
ReturnStats ==
    /\ dpc = "loop" /\ file > Len(excel_files)
    /\ dpc' = "done"
    /\ stats' = <<success_count, failure_count>>
    /\ UNCHANGED <<excel_files, json_dir, file, success_count, failure_count, parsed, svars>>

DirNext == Clear \/ ParseFile \/ ReturnStats

DirSpec == DirInit /\ [][DirNext]_vars


\* ------------------------------------------------------------------ claims
Lists_ == {n \in 1..Len(nodes) : nodes[n].kind = "HeadList"}
Scalars == {"HeadInt", "HeadString", "HeadFloat"}

\* the entry of the log for node n, if the node was called for the row read last
Called(lg, n) == \E p \in 1..Len(lg) : lg[p].node = n
Entry(lg, n) == lg[CHOOSE p \in 1..Len(lg) : lg[p].node = n]

\* C1, on the accumulators: the keys of the rows appended to the current
\* instance of every List node are 0, 1, ..., n - 1 in row order, n being the
\* length of the accumulator.
C1_Contiguous ==
    \A n \in Lists_ :
        nodes[n].data # 0 =>
            LET acc == heap[nodes[n].data]
            IN  /\ Len(acc.keys) = Len(acc.items)
                /\ \A p \in 1..Len(acc.keys) : acc.keys[p] = p - 1

\* C1, on one row: when a List node that has a current instance (the call
\* resets it, or an earlier call did) is extracted and its key is present,
\* then either the key equals the accumulator's length, this List raises no
\* invalid-index and, unless the value child raises, exactly one element is
\* appended; or it differs, and this very
\* row raises invalid-index with the expected and the observed index and the
\* accumulator is left as it is.
C1_Row ==
    \A n \in Lists_ :
        (Called(log', n) /\ nodes[n].key # 0 /\ Called(log', nodes[n].key)
           /\ Entry(log', nodes[n].key).ret.t = "int"
           /\ (Entry(log', n).enable \/ nodes[n].data # 0))
        =>
        LET key == Entry(log', nodes[n].key).ret.v
            cur == IF Entry(log', n).enable THEN <<>> ELSE heap[nodes[n].data].items
            now == heap'[nodes'[n].data].items
        IN  IF key # Len(cur)
            THEN /\ raised' = [kind |-> "InvalidIndexError", col |-> nodes[n].column,
                               expected |-> Len(cur), got |-> key]
                 /\ pc' = "done"
                 /\ now = cur
            ELSE /\ raised' # [kind |-> "InvalidIndexError", col |-> nodes[n].column,
                               expected |-> Len(cur), got |-> key]
                 /\ IF Entry(log', n).ret = Raised THEN now = cur
                    ELSE Len(now) = Len(cur) + 1 /\ SubSeq(now, 1, Len(cur)) = cur

\* C1: the indices accumulated by a List instance are contiguous from 0, and
\* the first row that deviates raises invalid-index and appends nothing.
C1_Theorem == [](C1_Contiguous) /\ [][(pc = "rows" /\ rows' # rows) => C1_Row]_vars

\* C1 witness: a List holds the rows of keys 0 and 1, and the next row, whose
\* key repeats 0, has raised invalid-index.
C1_Witness ==
    /\ raised.kind = "InvalidIndexError" /\ raised.expected = 2 /\ raised.got = 0
    /\ \E n \in Lists_ : nodes[n].data # 0 /\ heap[nodes[n].data].keys = <<0, 1>>


\* ---- C2
\* a row of the data region: its marker and the values of its cells
DRow(marker, values) ==
    [marker |-> marker, cells |-> [p \in 1..Len(values) |-> Cell(values[p], p + 1, 0)]]

ListOf(items) == [t |-> "list", items |-> items]
DictOf(items) == [t |-> "dict", items |-> items]

\* the value get_data returns, as json.dumps walks it
Output == Deref(heap, data_root)

Returned == pc = "done" /\ returned

\* The tree of a header that declares tags:list over i:int and v:string, with
\* tags:list in row 0 (the root), and the same under a root r:class in row 0.
TagsNodes ==
    <<[kind |-> "HeadList", name |-> <<"tags">>, column |-> 0, key |-> 2, value |-> 3,
       children |-> <<>>, data |-> 0],
      [kind |-> "HeadInt", name |-> <<"i">>, column |-> 0, key |-> 0, value |-> 0,
       children |-> <<>>, data |-> 0],
      [kind |-> "HeadString", name |-> <<"v">>, column |-> 1, key |-> 0, value |-> 0,
       children |-> <<>>, data |-> 0]>>

ClassTagsNodes ==
    <<[kind |-> "HeadClass", name |-> <<"r">>, column |-> 0, key |-> 0, value |-> 0,
       children |-> <<2>>, data |-> 0],
      [kind |-> "HeadList", name |-> <<"tags">>, column |-> 0, key |-> 3, value |-> 4,
       children |-> <<>>, data |-> 0],
      [kind |-> "HeadInt", name |-> <<"i">>, column |-> 0, key |-> 0, value |-> 0,
       children |-> <<>>, data |-> 0],
      [kind |-> "HeadString", name |-> <<"v">>, column |-> 1, key |-> 0, value |-> 0,
       children |-> <<>>, data |-> 0]>>

\* the schema of a tree: the nodes without their accumulators
Schema(ns) == [n \in 1..Len(ns) |-> [ns[n] EXCEPT !.data = 0]]

TagsRows ==
    <<DRow(DATA, <<IntV(0), S("a")>>), DRow(NoneV, <<IntV(1), S("b")>>),
      DRow(NoneV, <<IntV(2), S("c")>>)>>

ABC == ListOf(<<S("a"), S("b"), S("c")>>)
TagsABC == DictOf(<<[k |-> <<"tags">>, v |-> ABC]>>)

\* The scenario of C2 has been run to the end of the sheet: the header declares
\* tags:list over i:int and v:string (as the root or under a class root) and
\* the rows read are #data|0|a, |1|b, |2|c.
C2_Scenario ==
    /\ pc = "done"
    /\ Schema(nodes) \in {TagsNodes, ClassTagsNodes}
    /\ rows = TagsRows

\* C2 as stated: in the scenario the session output is {"tags": ["a","b","c"]}.
C2_Original == C2_Scenario => (Returned /\ Output = TagsABC)

\* the nodes whose value the output holds: the root, and the children of a
\* HeadClass node that is such a node, unless a later child of the same name
\* overwrites the entry
RECURSIVE InOutput(_)
InOutput(n) ==
    \/ n = 1
    \/ \E m \in 1..Len(nodes) :
          /\ nodes[m].kind = "HeadClass" /\ m < n /\ InOutput(m)
          /\ \E p \in 1..Len(nodes[m].children) :
                /\ nodes[m].children[p] = n
                /\ \A q \in (p + 1)..Len(nodes[m].children) :
                      nodes[nodes[m].children[q]].name # nodes[n].name

\* the references the value val holds, directly or not
RECURSIVE Refs(_)
Refs(val) ==
    IF val.t # "ref" THEN {}
    ELSE {val.v} \cup UNION {Refs(IF heap[val.v].t = "list" THEN heap[val.v].items[p]
                                   ELSE heap[val.v].items[p].v) : p \in 1..Len(heap[val.v].items)}

\* the rows read from the last row marked "#data" on
LastMark == CHOOSE p \in 1..Len(rows) :
                rows[p].marker = DATA /\ \A q \in (p + 1)..Len(rows) : rows[q].marker # DATA
SinceMark == SubSeq(rows, LastMark, Len(rows))

\* of these, the rows whose cell in column c holds a value
RECURSIVE Present(_, _)
Present(rs, c) ==
    IF rs = <<>> THEN <<>>
    ELSE (IF At(Head(rs).cells, c).value # NoneV THEN <<Head(rs)>> ELSE <<>>) \o Present(Tail(rs), c)

\* C2, the general part: while no row has raised, the accumulator of every
\* List node whose value the output holds is the very object the output holds,
\* and it has one element per row with a present key read since the last
\* "#data" row, in row order (checked element by element for a string value).
C2_Aliased ==
    (is_data /\ raised = NoErr) =>
        \A n \in Lists_ :
            InOutput(n) =>
                LET acc == heap[nodes[n].data]
                    fed == Present(SinceMark, nodes[nodes[n].key].column)
                    val == nodes[nodes[n].value]
                IN  /\ nodes[n].data \in Refs(data_root)
                    /\ Len(acc.items) = Len(fed)
                    /\ val.kind = "HeadString" =>
                          \A p \in 1..Len(fed) :
                              acc.items[p] =
                                  (IF At(fed[p].cells, val.column).value = NoneV THEN NoneV
                                   ELSE StrV(PyStr(At(fed[p].cells, val.column).value)))

\* C2 as amended: in the scenario the output is ["a","b","c"] when tags:list is
\* the cell of row 0, and {"tags": ["a","b","c"]} when row 0 declares a class
\* above it; and the general part.
C2_Theorem ==
    /\ (C2_Scenario /\ Schema(nodes) = TagsNodes) => (Returned /\ Output = ABC)
    /\ (C2_Scenario /\ Schema(nodes) = ClassTagsNodes) => (Returned /\ Output = TagsABC)
    /\ C2_Aliased

\* C2 witness: the scenario with tags:list as the root has been run to the end.
C2_Witness == C2_Scenario /\ Schema(nodes) = TagsNodes /\ Len(heap[nodes[1].data].items) = 3


\* ---- C3
\* C3 as stated: the value get_data holds for its output is what the root
\* returned on the first "#data" row, and every row extracted after that row
\* is replayed through the root with active = false.
C3_Claim ==
    /\ (is_data /\ raised = NoErr) => data_root = first_ret
    /\ Len(rows) >= 2 => ~Entry(log, 1).enable

\* ---- C4
\* C4: every call of a scalar leaf with active = false, made for the row read
\* last, returned absent when the leaf's cell is empty and otherwise raised
\* unexpected-data naming that cell, which ended the session without an output.
C4_Theorem ==
    \A p \in 1..Len(log) :
        LET self == nodes[log[p].node]
            cell == At(rows[Len(rows)].cells, self.column)
        IN  (self.kind \in Scalars /\ ~log[p].enable) =>
                IF cell.value # NoneV
                THEN /\ log[p].ret = Raised
                     /\ raised = Err("UnexpectedDataError", cell.column - 2)
                     /\ pc = "done" /\ ~returned
                ELSE log[p].ret = NoneV

\* C4 witness: a row after the "#data" row held a value in the column of a
\* leaf called with active = false, and the session ended with unexpected-data.
C4_Witness ==
    /\ Len(rows) >= 2 /\ rows[Len(rows)].marker # DATA
    /\ raised.kind = "UnexpectedDataError"
    /\ \E p \in 1..Len(log) :
          /\ nodes[log[p].node].kind \in Scalars /\ ~log[p].enable
          /\ At(rows[Len(rows)].cells, nodes[log[p].node].column).value # NoneV

\* ---- C5
HeaderErrors ==
    {"InvalidHeaderFormatError", "InvalidTypeNameError", "ChildAdditionError"}

\* the session has ended on a sheet whose "#head" row made the root node and
\* that has no row marked "#data"
C5_NoData == pc = "done" /\ first_row.marker = HEAD /\ Len(nodes) >= 1 /\ nmark = 0

\* C5 as stated: without any "#data" row after a "#head" row, the session
\* fails with missing-data-marker and returns no value.
C5_Original == C5_NoData => (raised.kind = "MissingDataMarkerError" /\ ~returned)

\* C5 as amended: without any "#data" row after a "#head" row, the session
\* returns no value; it fails with missing-data-marker unless the header region
\* raised a diagnostic of its own first.
C5_Theorem ==
    C5_NoData =>
        /\ ~returned
        /\ raised.kind # "none"
        /\ raised.kind \notin HeaderErrors => raised.kind = "MissingDataMarkerError"

\* C5 witness: a sheet with header rows below "#head" and no "#data" row has
\* ended with missing-data-marker.
C5_Witness == C5_NoData /\ raised.kind = "MissingDataMarkerError" /\ Len(nodes) >= 2

\* ---- C6
\* the sheet of C6 has been read to its end: row 0 is #head | id:int |
\* name:string and the one row below it is #data | 1 | Alice
C6_Scenario ==
    /\ pc = "done"
    /\ first_row = [marker |-> HEAD,
                    cells |-> <<Cell(T("id", "int"), 2, 0), Cell(T("name", "string"), 3, 0)>>]
    /\ nhead = 0 /\ ndata = 1
    /\ rows = <<DRow(DATA, <<IntV(1), S("Alice")>>)>>

\* C6 as stated: the output is the record {"id": 1, "name": "Alice"}.
C6_Original ==
    C6_Scenario =>
        /\ Returned
        /\ Output = DictOf(<<[k |-> <<"id">>, v |-> IntV(1)], [k |-> <<"name">>, v |-> S("Alice")]>>)

\* C6 as amended: the output is the integer 1; the only node is the root
\* id:int made from the first cell of row 0, and name:string made no node.
C6_Theorem ==
    C6_Scenario =>
        /\ Returned
        /\ Output = IntV(1)
        /\ Schema(nodes) = <<[kind |-> "HeadInt", name |-> <<"id">>, column |-> 0, key |-> 0,
                              value |-> 0, children |-> <<>>, data |-> 0]>>

\* C6 witness: the sheet of C6 has been read to its end and a value returned.
C6_Witness == C6_Scenario /\ Returned

\* ---- C7
\* C7 as stated: the mapping a HeadClass node returned for the row read last
\* has one entry per child, in the order of the children.
C7_Claim ==
    \A p \in 1..Len(log) :
        LET self == nodes[log[p].node]
        IN  (self.kind = "HeadClass" /\ log[p].enable /\ log[p].ret # Raised) =>
                LET ret == heap[log[p].ret.v].items
                IN  /\ Len(ret) = Len(self.children)
                    /\ \A q \in 1..Len(ret) : ret[q].k = nodes[self.children[q]].name

\* ---- C8
\* C8: after the first "#data" row has been extracted, and before any further
\* row is, extracting that row again through the root with active = true does
\* not raise and returns a value equal to the one the first call returned.
C8_Theorem ==
    (Len(rows) = 1 /\ raised = NoErr /\ pc = "rows") =>
        LET again == parse_data(1, rows[1].cells, TRUE,
                                [nodes |-> nodes, heap |-> heap, err |-> NoErr, log |-> <<>>])
        IN  /\ again.st.err = NoErr
            /\ Deref(again.st.heap, again.val) = Deref(heap, first_ret)

\* C8 witness: the first "#data" row has been extracted into a list or a dict
\* that now holds an element.
C8_Witness ==
    /\ Len(rows) = 1 /\ raised = NoErr /\ pc = "rows"
    /\ nodes[1].kind \in {"HeadList", "HeadDict"}
    /\ Len(heap[nodes[1].data].items) = 1

\* ---- C9, C10
\* the number of ":" in a text
RECURSIVE Colons(_)
Colons(s) == IF s = <<>> THEN 0 ELSE (IF Head(s) = ":" THEN 1 ELSE 0) + Colons(Tail(s))

\* the text of a header cell, as head_creator reads it
Text(cell) == IF Truthy(cell.value) THEN PyStr(cell.value) ELSE <<>>

\* C9 as stated: every header cell whose text has not exactly one ":" fails
\* with invalid-header-format and makes no node.
C9_Claim ==
    \A p \in 1..Len(made) :
        Colons(Text(made[p].cell)) # 1 =>
            (made[p].err.kind = "InvalidHeaderFormatError" /\ made[p].node = NoneV)

\* the class the registry gives a type name
Variant(type) ==
    CASE type = "int" -> "HeadInt"
      [] type = "string" -> "HeadString"
      [] type = "float" -> "HeadFloat"
      [] type = "list" -> "HeadList"
      [] type = "dict" -> "HeadDict"
      [] type = "class" -> "HeadClass"
      [] OTHER -> "none"

\* C10: every header cell name:type (one ":") makes one node of the variant
\* registered for type, with that name, when type is int, string, float, list,
\* dict or class, and otherwise fails with invalid-type-name and makes no node.
C10_Theorem ==
    \A p \in 1..Len(made) :
        LET text == Text(made[p].cell)
        IN  (Colons(text) = 1 /\ Len(text) = 3 /\ text[2] = ":") =>
                IF Variant(text[3]) # "none"
                THEN /\ made[p].err = NoErr
                     /\ made[p].node.kind = Variant(text[3])
                     /\ made[p].node.name = <<text[1]>>
                ELSE /\ made[p].err.kind = "InvalidTypeNameError"
                     /\ made[p].node = NoneV

\* C10 witness: header cells have made a list node and a dict node, and a
\* cell with an unregistered type name has failed with invalid-type-name.
C10_Witness ==
    /\ pc = "done" /\ raised.kind = "InvalidTypeNameError"
    /\ \E p \in 1..Len(made) : Colons(Text(made[p].cell)) = 1 /\ made[p].node = NoneV
    /\ \E n \in 1..Len(nodes) : nodes[n].kind \in {"HeadList", "HeadDict"}


\* ---- C11
\* the scalar class a List or a Dict requires of its key child
KeyClass(kind) == IF kind = "HeadList" THEN "HeadInt" ELSE "HeadString"

\* C11, on the tree: a List's key child is an Int scalar and a Dict's a String
\* scalar, no value child is set before the key child, and scalars have no
\* child.
C11_Shape ==
    \A n \in 1..Len(nodes) :
        LET self == nodes[n]
        IN  /\ self.kind \in {"HeadList", "HeadDict"} =>
                 /\ self.key # 0 => nodes[self.key].kind = KeyClass(self.kind)
                 /\ self.value # 0 => self.key # 0
                 /\ self.children = <<>>
            /\ self.kind \in Scalars => (self.key = 0 /\ self.value = 0 /\ self.children = <<>>)

\* C11, on the add_child calls of the sweep made last: a List or Dict without
\* a key child takes an Int (a String) scalar as its key child and rejects
\* any other node, one with a key child only takes any node as its value
\* child, one with both rejects; a scalar rejects; a rejected call raises
\* child-addition, which ends the session, and leaves the node as it was.
C11_Calls ==
    \A p \in 1..Len(made) :
        LET e == made[p]
            b == e.before
        IN  (e.parent # 0 /\ b.kind # "HeadClass") =>
                LET role == IF b.kind \in Scalars THEN "none"
                            ELSE IF b.key = 0
                            THEN (IF e.node.kind = KeyClass(b.kind) THEN "key" ELSE "none")
                            ELSE IF b.value = 0 THEN "value" ELSE "none"
                IN  CASE role = "key" -> e.added = NoErr /\ e.after = [b EXCEPT !.key = e.child]
                      [] role = "value" -> e.added = NoErr /\ e.after = [b EXCEPT !.value = e.child]
                      [] OTHER -> /\ e.added.kind = "ChildAdditionError"
                                  /\ e.after = b /\ nodes[e.parent] = b
                                  /\ raised = e.added /\ pc = "done" /\ p = Len(made)

\* C11: the child-addition rules of List, Dict and scalar nodes.
C11_Theorem == C11_Shape /\ C11_Calls

\* C11 witness: a List that has its key child and its value child has
\* rejected a third child.
C11_Witness ==
    /\ raised.kind = "ChildAdditionError"
    /\ \E p \in 1..Len(made) :
          /\ made[p].parent # 0 /\ made[p].before.kind = "HeadList"
          /\ made[p].before.key # 0 /\ made[p].before.value # 0
          /\ made[p].added.kind = "ChildAdditionError"


\* ---- C12
Containers == {"HeadList", "HeadDict"}

\* the call of node n for the row read last returned a value that is present
Present_(lg, n) == Called(lg, n) /\ Entry(lg, n).ret \notin {NoneV, Raised}

\* C12, on the calls made for the row read last: every call of a List or Dict
\* that has a key child called the key child with active = true; the value
\* child, when called, was called with active = true if the key was present
\* and with active = false if it was absent; it was called unless the key
\* child raised or this node raised on a present key before reaching it; and
\* a call with active = false that returned on a present key stored the row.
C12_Calls ==
    \A p \in 1..Len(log) :
        LET n == log[p].node
            self == nodes[n]
        IN  (self.kind \in Containers /\ self.key # 0) =>
                /\ Called(log, self.key) /\ Entry(log, self.key).enable
                /\ (self.value # 0 /\ Called(log, self.value)) =>
                       /\ Entry(log, self.key).ret # Raised
                       /\ Entry(log, self.value).enable = (Entry(log, self.key).ret # NoneV)
                /\ (self.value # 0 /\ ~Called(log, self.value)) =>
                       /\ log[p].ret = Raised
                       /\ \/ Entry(log, self.key).ret = Raised
                          \/ /\ Present_(log, self.key)
                             /\ raised.kind \in {"InvalidIndexError", "AttributeError"}
                             /\ raised.col = self.column
                /\ (~log[p].enable /\ Present_(log, self.key) /\ log[p].ret # Raised) =>
                       /\ self.data # 0
                       /\ heap[self.data].keys # <<>>
                       /\ heap[self.data].keys[Len(heap[self.data].keys)] = Entry(log, self.key).ret.v

\* C12, on the diagnostic: unexpected-data is never raised by the key child of
\* a List or Dict.
C12_KeyColumn ==
    raised.kind = "UnexpectedDataError" =>
        \A p \in 1..Len(log) :
            (log[p].ret = Raised /\ \E n \in 1..Len(nodes) :
                                       nodes[n].kind \in Containers /\ nodes[n].key = log[p].node)
                => \E q \in 1..(p - 1) : log[q].ret = Raised

\* C12: the flags a List or Dict hands to its key child and its value child.
C12_Theorem == C12_Calls /\ C12_KeyColumn

\* C12 witness: a List under a Record root, called with active = false for a
\* row below the "#data" row, has read a present key with active = true, its
\* value with active = true, and stored the row as its second element.
C12_Witness ==
    /\ nodes # <<>> /\ nodes[1].kind = "HeadClass" /\ Len(rows) >= 2 /\ raised = NoErr
    /\ \E p \in 1..Len(log) :
          LET self == nodes[log[p].node]
          IN  /\ self.kind = "HeadList" /\ ~log[p].enable
              /\ self.key # 0 /\ self.value # 0
              /\ Present_(log, self.key) /\ Entry(log, self.value).enable
              /\ Len(heap[self.data].items) = 2


\* ---- C13
Dicts_ == {n \in 1..Len(nodes) : nodes[n].kind = "HeadDict"}

\* what the scalar node n extracts from a row with active = true
Extracted(n, row) ==
    parse_data(n, row.cells, TRUE, [nodes |-> nodes, heap |-> heap, err |-> NoErr, log |-> <<>>]).val

\* C13, on the accumulator of a root Dict with a scalar value child, while no
\* row has raised: its keys are the distinct keys of the rows with a present
\* key read since the last "#data" row, one entry each, and the value of a key
\* is the one extracted from the last of these rows that holds the key.
C13_LastWins ==
    (is_data /\ raised = NoErr /\ nodes[1].kind = "HeadDict" /\ nodes[nodes[1].value].kind \in Scalars) =>
        LET acc == heap[nodes[1].data]
            fed == Present(SinceMark, nodes[nodes[1].key].column)
            key(p) == Extracted(nodes[1].key, fed[p]).v
        IN  /\ acc.keys = [p \in 1..Len(fed) |-> key(p)]
            /\ {acc.items[q].k : q \in 1..Len(acc.items)} = {key(p) : p \in 1..Len(fed)}
            /\ Len(acc.items) = Cardinality({key(p) : p \in 1..Len(fed)})
            /\ \A q \in 1..Len(acc.items) :
                  LET last == CHOOSE p \in 1..Len(fed) :
                                  key(p) = acc.items[q].k /\ \A r \in (p + 1)..Len(fed) : key(r) # key(p)
                  IN  acc.items[q].v = Extracted(nodes[1].value, fed[last])

\* C13, on the diagnostics: a call of a Dict that has its two children and an
\* accumulator raises only what one of its children raised.
C13_NoCheck ==
    \A p \in 1..Len(log) :
        LET self == nodes[log[p].node]
        IN  (self.kind = "HeadDict" /\ log[p].ret = Raised /\ self.key # 0 /\ self.value # 0
               /\ self.data # 0)
                => \E q \in 1..(p - 1) : log[q].ret = Raised

\* C13: a Dict checks neither the order nor the uniqueness of its keys; the
\* last row of a key wins.
C13_Theorem == C13_LastWins /\ C13_NoCheck

\* C13 witness: three rows fed a root Dict, the key of the first repeated by
\* the third with another value, and the mapping has two entries.
C13_Witness ==
    /\ is_data /\ raised = NoErr /\ nodes[1].kind = "HeadDict"
    /\ nodes[1].key # 0 /\ nodes[1].value # 0 /\ nodes[nodes[1].value].kind = "HeadString"
    /\ LET acc == heap[nodes[1].data]
       IN  /\ Len(acc.keys) = 3 /\ acc.keys[1] = acc.keys[3] /\ acc.keys[2] # acc.keys[1]
           /\ Len(acc.items) = 2
           /\ Extracted(nodes[1].value, rows[1]) # Extracted(nodes[1].value, rows[3])


\* ---- C14
\* C14: once row 0 has been read with a marker cell that is not "#head", the
\* session has ended with missing-header-marker, no node was created, no
\* head_creator call made and no row read or extracted.
C14_Theorem ==
    (pc # "open" /\ first_row.marker # HEAD) =>
        /\ pc = "done" /\ ~returned
        /\ raised = Err("MissingHeaderMarkerError", -1)
        /\ nodes = <<>> /\ headList = <<>> /\ made = <<>>
        /\ rows = <<>> /\ log = <<>> /\ heap = <<>>
        /\ nhead = 0 /\ ndata = 0

\* C14 witness: row 0 had another text than "#head" in its marker cell and a
\* well-formed header cell next to it.
C14_Witness ==
    /\ pc = "done" /\ first_row.marker = S("x")
    /\ head_creator(first_row.cells[1]).err = NoErr
    /\ raised.kind = "MissingHeaderMarkerError"


\* ---- C15
\* the positions of excel_files whose file get_json raised on
Failing == {i \in 1..Len(excel_files) : excel_files[i] # "json"}

\* C15, while parse_dir runs: parse_file has been called once on each file
\* before the position of the loop and on no other, the counters count the
\* files among these that did and did not raise, and the output directory
\* holds the .json file of just those that did not raise.
C15_Loop ==
    dpc \in {"loop", "done"} =>
        LET seen == IF dpc = "done" THEN Len(excel_files) ELSE file - 1
        IN  /\ parsed = [i \in 1..seen |-> i]
            /\ failure_count = Cardinality({i \in 1..seen : i \in Failing})
            /\ success_count = Cardinality({i \in 1..seen : i \notin Failing})
            /\ json_dir = {i \in 1..seen : i \notin Failing}

\* C15, at the end: parse_dir returns the two counters, which sum to the
\* number of files.
C15_Stats ==
    dpc = "done" =>
        /\ stats = <<success_count, failure_count>>
        /\ stats[1] + stats[2] = Len(excel_files)

\* C15: a file that raises is counted as a failure, gets no .json file and does
\* not keep the other files from being processed, each exactly once.
C15_Theorem == C15_Loop /\ C15_Stats

\* C15 witness: parse_dir has returned (2, 2) after a file that raised was
\* followed by one that did not.
C15_Witness ==
    /\ dpc = "done" /\ stats = <<2, 2>>
    /\ excel_files[1] = "Exception" /\ excel_files[2] = "json" /\ excel_files[3] = "TableException"


\* ---- C16
\* a step of the loop over the rows that read a row
RowRead == pc = "rows" /\ nhead' + ndata' = nhead + ndata + 1

\* C16: a step that reads a row whose marker cell is "#" creates no node,
\* leaves the ownership table, the accumulators and the output as they are,
\* raises nothing, does not end the session and leaves is_data as it is.
C16_Theorem ==
    [][(RowRead /\ row_marker' = COMMENT) =>
          UNCHANGED <<pc, column, nodes, headList, heap, is_data, data_root, raised, returned,
                      rows, first_ret, nmark>>]_vars

\* C16 witness: a comment row was read in the header region, between two
\* rows of header cells, and another in the data region.
C16_Witness ==
    /\ row_marker = COMMENT /\ is_data /\ nhead = 2 /\ Len(nodes) >= 3 /\ Len(rows) = 2 /\ ndata = 3
    /\ raised = NoErr


\* ---- C17
\* C17 as stated: a call with active = false of a List or Dict that has its
\* two children, on a row whose key is present, either stores the row in the
\* node's accumulator, or raises invalid-index, or raises what its value child
\* raised; it never fails for lack of an accumulator.
C17_Claim ==
    \A p \in 1..Len(log) :
        LET self == nodes[log[p].node]
        IN  (self.kind \in Containers /\ self.key # 0 /\ self.value # 0 /\ ~log[p].enable
               /\ Present_(log, self.key))
            =>  \/ /\ log[p].ret # Raised
                   /\ self.data # 0
                   /\ heap[self.data].keys # <<>>
                   /\ heap[self.data].keys[Len(heap[self.data].keys)] = Entry(log, self.key).ret.v
                \/ /\ log[p].ret = Raised
                   /\ raised.kind = "InvalidIndexError" /\ raised.col = self.column
                \/ /\ log[p].ret = Raised
                   /\ Called(log, self.value) /\ Entry(log, self.value).ret = Raised

\* ---- C18
\* C18 as stated: once a row has been extracted, every List and Dict node of
\* the tree has a key child and a value child.
C18_Claim ==
    rows # <<>> =>
        \A n \in 1..Len(nodes) :
            nodes[n].kind \in Containers => (nodes[n].key # 0 /\ nodes[n].value # 0)


\* ---- C19
\* a step of the loop that swept a header row
Sweep == RowRead /\ ~is_data /\ row_marker' \notin {COMMENT, DATA}

\* the column indices a header cell spans: from its own to the rightmost one
\* of the merged rectangle it is the corner of
Span(cell) ==
    (cell.column - 2)..(IF cell.merged # 0 THEN cell.merged - 2 ELSE cell.column - 2)

\* the children of a node
ChildrenOf(node) ==
    ({node.key, node.value} \ {0}) \cup {node.children[p] : p \in 1..Len(node.children)}

\* C19: a header sweep that raises nothing made one node per cell that is not
\* empty (row_parser takes a cell without a value, or with the value 0 or "",
\* for empty), in column order and with disjoint spans; each node is a new child of the node that owned the cell's
\* column before the sweep; afterwards the ownership entries of each cell's
\* span point at its node and every other entry, and every node that got no
\* child, is as it was.
C19_Sweep ==
    (Sweep /\ raised' = NoErr) =>
        /\ {made'[p].cell : p \in 1..Len(made')} =
               {swept'[c] : c \in {d \in 1..Len(swept') : Truthy(swept'[d].value)}}
        /\ Len(nodes') = Len(nodes) + Len(made')
        /\ Len(headList') = Len(headList)
        /\ \A p \in 1..Len(made') :
              LET e == made'[p]
              IN  /\ Truthy(e.cell.value)
                  /\ e.child = Len(nodes) + p
                  /\ nodes'[e.child] = e.node
                  /\ e.node.column = e.cell.column - 2
                  /\ e.parent = At(headList, e.cell.column - 2)
                  /\ e.child \in ChildrenOf(nodes'[e.parent])
                  /\ e.child \notin ChildrenOf(nodes[e.parent])
                  /\ \A q \in (p + 1)..Len(made') :
                        \A c \in Span(e.cell) : c < made'[q].cell.column - 2
        /\ \A c \in 0..(Len(headList) - 1) :
              At(headList', c) =
                  IF \E p \in 1..Len(made') : c \in Span(made'[p].cell)
                  THEN made'[CHOOSE p \in 1..Len(made') : c \in Span(made'[p].cell)].child
                  ELSE At(headList, c)
        /\ \A n \in 1..Len(nodes) :
              (\A p \in 1..Len(made') : made'[p].parent # n) => nodes'[n] = nodes[n]

\* C19: the effect of a header sweep on the tree and on the ownership table.
C19_Theorem == [][C19_Sweep]_vars

\* C19 witness: a sweep of three columns found a cell, then a cell merged
\* over two columns, and left an ownership table of two owners.
C19_Witness ==
    /\ pc = "rows" /\ ~is_data /\ raised = NoErr /\ Len(made) = 2
    /\ made[2].cell.merged # 0
    /\ headList = <<made[1].child, made[2].child, made[2].child>>
    /\ made[1].parent = 1 /\ made[2].parent = 1


\* ---- C20
\* C20: a step from the first "#data" row on compiles no header cell and
\* leaves the schema (every node but for its accumulator), the ownership table
\* and the width as they are; scalar and Record nodes are left as they are
\* altogether, and only a List or Dict that was called may have another
\* accumulator.
C20_Step ==
    is_data' =>
        /\ made' = <<>>
        /\ Schema(nodes') = Schema(nodes)
        /\ headList' = headList /\ column' = column
        /\ \A n \in 1..Len(nodes) :
              nodes'[n] # nodes[n] => (nodes[n].kind \in Containers /\ Called(log', n))

\* C20: row extraction never changes the schema.
C20_Theorem == [][C20_Step]_vars

\* C20 witness: under a Record root, a List has stored three rows, the last
\* two replayed with active = false, and a later row has raised.
C20_Witness ==
    /\ is_data /\ Len(rows) = 3 /\ raised # NoErr
    /\ nodes[1].kind = "HeadClass" /\ Len(nodes) = 4 /\ nodes[2].kind = "HeadList"
    /\ nodes[2].data # 0 /\ Len(heap[nodes[2].data].items) = 2


\* ---- C21
\* C21: once the rows are exhausted, if a row marked "#data" was read and no
\* row raised a diagnostic, get_data returns data_root and does not raise
\* MissingDataMarkerError, whatever the root returned on that row.
C21_Claim ==
    (pc = "done" /\ nmark >= 1) =>
        /\ raised.kind # "MissingDataMarkerError"
        /\ raised = NoErr => returned


\* ---- C22
\* the places of the heap that hold a value: <<o, p>> is element p of object o
Slots == UNION {{<<o, p>> : p \in 1..Len(heap[o].items)} : o \in 1..Len(heap)}
SlotValue(sl) ==
    IF heap[sl[1]].t = "list" THEN heap[sl[1]].items[sl[2]] ELSE heap[sl[1]].items[sl[2]].v

\* the objects some node has for its accumulator
Current(ns) == {ns[n].data : n \in 1..Len(ns)} \ {0}

\* C22, on the values: no object is held by two places of the heap, so no two
\* entries of a container hold the same nested accumulator.
C22_NoSharing ==
    \A s1, s2 \in Slots :
        (s1 # s2 /\ SlotValue(s1).t = "ref") => SlotValue(s1) # SlotValue(s2)

\* C22, on a row: a List or Dict called with active = true is bound to an
\* object that did not exist before the row, the object it was bound to before
\* is left as it was, and so is every object that no node is bound to after
\* the row; no object is dropped.
C22_Step ==
    /\ Len(heap') >= Len(heap)
    /\ \A n \in 1..Len(nodes) :
          (nodes[n].kind \in Containers /\ Called(log', n) /\ Entry(log', n).enable
           /\ rows' # rows) =>
              /\ nodes'[n].data > Len(heap)
              /\ nodes[n].data # 0 => heap'[nodes[n].data] = heap[nodes[n].data]
    /\ \A o \in 1..Len(heap) : o \notin Current(nodes') => heap'[o] = heap[o]
    /\ C22_NoSharing'

\* C22: a reset starts a fresh container instance rather than clearing the old one.
C22_Theorem == [][C22_Step]_vars

\* C22 witness: a list of lists holds two elements, each a list of its own
\* with an element; the first was handed out before the second was started.
C22_Witness ==
    /\ raised = NoErr /\ Len(nodes) >= 3 /\ nodes[1].kind = "HeadList" /\ nodes[1].data # 0
    /\ nodes[1].value # 0 /\ nodes[nodes[1].value].kind = "HeadList"
    /\ LET outer == heap[nodes[1].data].items
       IN  /\ Len(outer) = 2
           /\ outer[1].t = "ref" /\ outer[2].t = "ref" /\ outer[1] # outer[2]
           /\ heap[outer[1].v].items # <<>> /\ heap[outer[2].v].items # <<>>
           /\ nodes[nodes[1].value].data = outer[2].v


\* ---- C23
\* a header sweep: every ownership entry in the span of a cell whose node was
\* attached belonged, before the sweep, to the node it was attached to.  (A
\* sweep goes left to right and writes no entry to the right of the cell it is
\* at, so before the sweep is immediately before the overwrite.)
C23_Within ==
    Sweep =>
        \A p \in 1..Len(made') :
            (made'[p].err = NoErr /\ made'[p].added = NoErr /\ made'[p].parent # 0) =>
                \A c \in Span(made'[p].cell) \cap (0..(Len(headList) - 1)) :
                    At(headList, c) = made'[p].parent

\* C23: during header compilation a new node takes over no ownership entry
\* but from the node it was attached to.
C23_Claim == [][C23_Within]_vars


\* ---- C24
\* C24, on a header sweep, raising or not: the loop ran its body with strictly
\* increasing column indices below the width, so at most once per cell and at
\* most `column` times; the index it went on with after a cell that is not
\* empty is greater than the cell's own; and when nothing is raised the cells
\* it did not visit are those a merged cell to the left spans.
C24_Sweep ==
    Sweep =>
        /\ \A p \in 1..Len(visited') : visited'[p] \in 0..(column - 1)
        /\ \A p \in 1..(Len(visited') - 1) : visited'[p] < visited'[p + 1]
        /\ Len(visited') <= column
        /\ \A p \in 1..Len(made') :
              /\ made'[p].cell.column - 2 \in {visited'[q] : q \in 1..Len(visited')}
              /\ \A q \in 1..Len(visited') :
                    visited'[q] > made'[p].cell.column - 2 =>
                        \A c \in Span(made'[p].cell) : c < visited'[q]
        /\ raised' = NoErr =>
              {visited'[q] : q \in 1..Len(visited')} =
                  (0..(column - 1)) \
                      UNION {Span(made'[p].cell) \ {made'[p].cell.column - 2} : p \in 1..Len(made')}

\* C24, on the ownership table: once Head.__init__ has made the root, it has
\* one entry per data column.
C24_Table == nodes' # <<>> => (Len(headList') = column' /\ column' = Len(first_row'.cells))

\* C24: every header sweep terminates, visiting each cell at most once, and
\* the ownership table keeps one entry per data column.
C24_Theorem == [][C24_Sweep /\ C24_Table]_vars

\* C24 witness: a sweep of three columns ran the body at indices 0 and 1 and
\* skipped index 2, which the merged cell at index 1 spans.
C24_Witness ==
    /\ pc = "rows" /\ ~is_data /\ raised = NoErr /\ column = 3
    /\ visited = <<0, 1>> /\ Len(made) = 2 /\ made[2].cell.merged = 4
    /\ Len(headList) = 3

====
